---- MODULE Spec2Model ----
(***************************************************************************)
(* AWS Asset Inventory Connector (api-connector/main.py).                  *)
(*                                                                         *)
(* The connector is a stateless request handler over two provider APIs     *)
(* (EC2 and SSM).  The state of the model is the provider's state as the   *)
(* connector can observe it (what each boto3 call answers or whether it    *)
(* raises), the response of the last request, and the log of the provider  *)
(* calls that request issued.  Every route handler is one action; the      *)
(* provider changes one facet at a time between requests.                  *)
(*                                                                         *)
(* Text that the code slices, trims or compares with a sentinel (instance  *)
(* ids, command output, host names, serial numbers) is a sequence of       *)
(* one-character strings, so that [-8:], strip() and != "N/A" are computed *)
(* as Python computes them.  Text that is only passed through (status      *)
(* strings, application fields) is a TLA+ string.                          *)
(***************************************************************************)
EXTENDS Integers, Sequences, FiniteSets, TLC

VARIABLES
    listing,      \* ec2.describe_instances(): [ok, ids]
    managed,      \* ssm.describe_instance_information(): [ok, ids]
    instances,    \* ec2.describe_instances(InstanceIds=[id]): id -> [detail, tags]
    volumes,      \* ec2.describe_volumes(VolumeIds=[v]): v -> "ok" | "empty" | "error"
    commands,     \* ssm.send_command / get_command_invocation: <<kind, doc>> -> outcome
    inventory,    \* ssm.list_inventory_entries: id -> [ok, error, entries]
    disk,         \* the export kinds whose CSV file cannot be written
    result,       \* the response of the last request
    calls         \* the provider calls (and file writes) of the last request, in order

provider == <<listing, managed, instances, volumes, commands, inventory, disk>>
vars == <<listing, managed, instances, volumes, commands, inventory, disk, result, calls>>

----------------------------------------------------------------------------
(* Text *)

NA == <<"N", "/", "A">>
Unknown == <<"U", "n", "k", "n", "o", "w", "n">>
SerialPrefix == <<"i", "-">>
SerialSuffixLen == 8

Whitespace == {" ", "\n", "\t", "\r"}

\* str.strip(): drop leading and trailing whitespace.
RECURSIVE LStrip(_)
LStrip(s) ==
    IF s # <<>> /\ Head(s) \in Whitespace THEN LStrip(Tail(s)) ELSE s

RECURSIVE RStrip(_)
RStrip(s) ==
    IF s # <<>> /\ s[Len(s)] \in Whitespace
    THEN RStrip(SubSeq(s, 1, Len(s) - 1))
    ELSE s

Strip(s) == RStrip(LStrip(s))

\* The fallback slice one character too wide.
LastCharsWide(s, n) ==
    IF Len(s) <= n + 1 THEN s ELSE SubSeq(s, Len(s) - n, Len(s))

\* s[-n:]: the last n characters, or all of s when it is shorter.
LastChars(s, n) ==
    IF Len(s) <= n THEN s ELSE SubSeq(s, Len(s) - n + 1, Len(s))

\* f"i-{instance_id[-8:]}"
FallbackSerial(instance_id) == SerialPrefix \o LastChars(instance_id, SerialSuffixLen)

\* LET x == value IN body(x), with value computed once.
Let(value, body(_)) == CHOOSE out \in {body(x) : x \in {value}} : TRUE

\* dict.get(key, default)
Get(d, key, default) == IF key \in DOMAIN d THEN d[key] ELSE default

----------------------------------------------------------------------------
(* The provider's universe *)

IdA == <<"i", "-", "0", "1", "2", "3", "4", "5", "6", "7", "8", "9",
         "a", "b", "c", "d", "e", "f", "0">>
IdB == <<"i", "-", "1", "a", "2", "b", "3", "c", "4", "d">>
InstanceIds == {IdA, IdB}

NameWeb == <<"w", "e", "b", "-", "1">>
TagSets == { <<>>,
             <<[Key |-> "Env", Value |-> <<"p", "r", "o", "d">>],
               [Key |-> "Name", Value |-> NameWeb]>> }

Details == {"ok", "notfound", "error", "malformed"}

VolumeIds == {"vol-1", "vol-2"}
VolumeSize == [v \in VolumeIds |-> IF v = "vol-1" THEN 20 ELSE 100]
VolumeAnswers == {"ok", "empty", "error"}

\* BlockDeviceMappings of each instance: IdA has two EBS volumes around an
\* instance-store device, IdB has an instance-store device only.
BlockDeviceMappings(id) ==
    IF id = IdA
    THEN << [DeviceName |-> "/dev/xvda", Ebs |-> [VolumeId |-> "vol-1"]],
            [DeviceName |-> "/dev/sdb", VirtualName |-> "ephemeral0"],
            [DeviceName |-> "/dev/xvdf", Ebs |-> [VolumeId |-> "vol-2"]] >>
    ELSE << [DeviceName |-> "/dev/sdb", VirtualName |-> "ephemeral0"] >>

InstanceType(id) == IF id = IdA THEN "t2.micro" ELSE "x1.32xlarge"

PowerShell == "AWS-RunPowerShellScript"
Shell == "AWS-RunShellScript"
Documents == {PowerShell, Shell}
Kinds == {"hostname", "serial"}

CommandValue(kind) ==
    IF kind = "hostname" THEN <<"i", "p", "-", "1", "0", "\n">>
    ELSE <<" ", "e", "c", "2", "f", "\n">>

\* What one send_command + get_command_invocation round trip can answer.
CommandOutcomes(kind) ==
    { [send |-> "error", poll |-> "ok", Status |-> "Failed", StandardOutputContent |-> <<>>],
      [send |-> "ok", poll |-> "error", Status |-> "Failed", StandardOutputContent |-> <<>>],
      [send |-> "ok", poll |-> "ok", Status |-> "Failed", StandardOutputContent |-> <<>>] }
    \cup
    { [send |-> "ok", poll |-> "ok", Status |-> "Success", StandardOutputContent |-> o] :
        o \in { <<" ", "\n">>, <<"N", "/", "A", "\n">>, CommandValue(kind) } }

MaxApps == 2

\* Inventory entries as the provider returns them; some lack optional keys.
AppEntry(i) ==
    IF i = 1
    THEN [Name |-> "nginx", Version |-> "1.24", Publisher |-> "F5", InstalledTime |-> "2024-01-01"]
    ELSE IF i = 2 THEN [Name |-> "curl", Version |-> "8.0"]
    ELSE [Version |-> "0.1"]

Entries(k) == [i \in 1..k |-> AppEntry(i)]

InvalidInstanceIdError == <<"An error occurred", "InvalidInstanceId", "when calling ListInventoryEntries">>
ThrottlingError == <<"An error occurred", "ThrottlingException", "when calling ListInventoryEntries">>

InventoryAnswers ==
    { [ok |-> TRUE, error |-> <<>>, entries |-> Entries(k)] : k \in 0..MaxApps }
    \cup
    { [ok |-> FALSE, error |-> e, entries |-> <<>>] : e \in {InvalidInstanceIdError, ThrottlingError} }

Listings ==
    { [ok |-> FALSE, ids |-> <<>>] } \cup
    { [ok |-> TRUE, ids |-> s] : s \in { <<IdA>>, <<IdA, IdB>>, <<IdB, IdA>> } }

ManagedAnswers ==
    { [ok |-> FALSE, ids |-> <<>>] } \cup
    { [ok |-> TRUE, ids |-> s] : s \in { <<>>, <<IdA>>, <<IdB>>, <<IdA, IdB>> } }

ExportKinds == {"hardware", "software"}

NoResult == [op |-> "none"]

----------------------------------------------------------------------------
(* Initial state: a healthy provider, no request served yet. *)

Init ==
    /\ listing = [ok |-> TRUE, ids |-> <<IdA, IdB>>]
    /\ managed = [ok |-> TRUE, ids |-> <<IdA>>]
    /\ instances = [id \in InstanceIds |->
                      [detail |-> "ok",
                       tags |-> IF id = IdA
                                THEN <<[Key |-> "Env", Value |-> <<"p", "r", "o", "d">>],
                                       [Key |-> "Name", Value |-> NameWeb]>>
                                ELSE <<>>]]
    /\ volumes = [v \in VolumeIds |-> "ok"]
    /\ commands = [c \in Kinds \X Documents |->
                     IF c[2] = PowerShell
                     THEN [send |-> "ok", poll |-> "ok", Status |-> "Failed",
                           StandardOutputContent |-> <<>>]
                     ELSE [send |-> "ok", poll |-> "ok", Status |-> "Success",
                           StandardOutputContent |-> CommandValue(c[1])]]
    /\ inventory = [id \in InstanceIds |->
                      IF id = IdA
                      THEN [ok |-> TRUE, error |-> <<>>, entries |-> Entries(MaxApps)]
                      ELSE [ok |-> TRUE, error |-> <<>>, entries |-> <<>>]]
    /\ disk = {}
    /\ result = NoResult
    /\ calls = <<>>

----------------------------------------------------------------------------
(* Outcomes of a call: a returned value or a raised exception, with the     *)
(* provider calls issued on the way.                                        *)

Call(api, target, arg) == [api |-> api, target |-> target, arg |-> arg]

Return(v, log) == [raised |-> FALSE, status_code |-> 200, error |-> <<>>, value |-> v, calls |-> log]
Raise(code, e, log) == [raised |-> TRUE, status_code |-> code, error |-> e, value |-> <<>>, calls |-> log]

ProviderError == <<"An error occurred", "InternalError">>
NotFoundError == <<"Instance not found">>
KeyError == <<"KeyError", "CpuOptions">>
OSError == <<"OSError", "No space left on device">>

----------------------------------------------------------------------------
(* class AWSClient *)

get_instances ==
    LET log == <<Call("describe_instances", <<>>, "")>> IN
    IF listing.ok
    THEN Return([i \in 1..Len(listing.ids) |-> [InstanceId |-> listing.ids[i]]], log)
    ELSE Raise(500, ProviderError, log)

\* The raw description describe_instances returns for one instance.
RawInstance(instance_id) ==
    LET base == [InstanceId |-> instance_id,
                 InstanceType |-> InstanceType(instance_id),
                 State |-> [Name |-> "running"],
                 Tags |-> instances[instance_id].tags,
                 BlockDeviceMappings |-> BlockDeviceMappings(instance_id)] IN
    IF instances[instance_id].detail = "malformed"
    THEN base
    ELSE base @@ [CpuOptions |-> [CoreCount |-> 1, ThreadsPerCore |-> 2]]

\* Without "except HTTPException: raise": the 404 is wrapped into a 500.
get_instance_details_wrapped(instance_id) ==
    LET log == <<Call("describe_instances", instance_id, "")>> IN
    IF instance_id \notin DOMAIN instances \/ instances[instance_id].detail \in {"notfound", "error"}
    THEN Raise(500, NotFoundError, log)
    ELSE Return(RawInstance(instance_id), log)

get_instance_details(instance_id) ==
    LET log == <<Call("describe_instances", instance_id, "")>> IN
    IF instance_id \notin DOMAIN instances \/ instances[instance_id].detail = "notfound"
    THEN Raise(404, NotFoundError, log)
    ELSE IF instances[instance_id].detail = "error"
    THEN Raise(500, ProviderError, log)
    ELSE Return(RawInstance(instance_id), log)

\* A listing that fails open: every instance counts as managed.
get_managed_instances_fail_open ==
    LET log == <<Call("describe_instance_information", <<>>, "")>> IN
    IF managed.ok THEN Return(managed.ids, log) ELSE Return(<<IdA, IdB>>, log)

get_managed_instances ==
    LET log == <<Call("describe_instance_information", <<>>, "")>> IN
    IF managed.ok THEN Return(managed.ids, log) ELSE Return(<<>>, log)

\* One send_command, the settle delay, one get_command_invocation.
RunCommand(instance_id, kind, doc) ==
    LET o == commands[<<kind, doc>>]
        send == Call("send_command", instance_id, doc) @@ [command |-> kind]
        poll == Call("get_command_invocation", instance_id, doc) @@ [command |-> kind] IN
    IF o.send = "error" THEN Raise(500, ProviderError, <<send>>)
    ELSE IF o.poll = "error" THEN Raise(500, ProviderError, <<send, poll>>)
    ELSE Return([Status |-> o.Status, StandardOutputContent |-> o.StandardOutputContent],
                <<send, poll>>)

\* The Linux attempt made also after the Windows attempt raised.
get_instance_hostname_retry(instance_id) ==
    LET first == RunCommand(instance_id, "hostname", PowerShell) IN
    IF ~first.raised /\ first.value.Status = "Success"
    THEN Return(Strip(first.value.StandardOutputContent), first.calls)
    ELSE LET second == RunCommand(instance_id, "hostname", Shell)
             log == first.calls \o second.calls IN
         IF second.raised THEN Return(NA, log)
         ELSE IF second.value.Status = "Success"
         THEN Return(Strip(second.value.StandardOutputContent), log)
         ELSE Return(NA, log)

get_instance_hostname(instance_id) ==
    LET first == RunCommand(instance_id, "hostname", PowerShell) IN
    IF first.raised THEN Return(NA, first.calls)
    ELSE IF first.value.Status = "Success"
    THEN Return(Strip(first.value.StandardOutputContent), first.calls)
    ELSE LET second == RunCommand(instance_id, "hostname", Shell)
             log == first.calls \o second.calls IN
         IF second.raised THEN Return(NA, log)
         ELSE IF second.value.Status = "Success"
         THEN Return(Strip(second.value.StandardOutputContent), log)
         ELSE Return(NA, log)

get_instance_serial(instance_id) ==
    LET first == RunCommand(instance_id, "serial", PowerShell) IN
    IF first.raised THEN Return(FallbackSerial(instance_id), first.calls)
    ELSE IF first.value.Status = "Success" /\ Strip(first.value.StandardOutputContent) # <<>>
    THEN Return(Strip(first.value.StandardOutputContent), first.calls)
    ELSE LET second == RunCommand(instance_id, "serial", Shell)
             log == first.calls \o second.calls IN
         IF second.raised THEN Return(FallbackSerial(instance_id), log)
         ELSE IF second.value.Status = "Success"
                 /\ Strip(second.value.StandardOutputContent) # <<>>
         THEN Return(Strip(second.value.StandardOutputContent), log)
         ELSE Return(FallbackSerial(instance_id), log)

get_software_inventory(instance_id) ==
    LET log == <<Call("list_inventory_entries", instance_id, "AWS:Application")>> IN
    IF instance_id \in DOMAIN inventory /\ inventory[instance_id].ok
    THEN Return(inventory[instance_id].entries, log)
    ELSE Return(<<>>, log)

\* ec2.describe_volumes(VolumeIds=[volume_id]), called by the services directly.
describe_volumes(volume_id) ==
    LET log == <<Call("describe_volumes", <<>>, volume_id)>> IN
    IF volumes[volume_id] = "error" THEN Raise(500, ProviderError, log)
    ELSE IF volumes[volume_id] = "empty" THEN Return([Volumes |-> <<>>], log)
    ELSE Return([Volumes |-> <<[Size |-> VolumeSize[volume_id]]>>], log)

\* DataFrame(rows).to_csv(filename)
to_csv(kind) ==
    LET log == <<Call("to_csv", <<>>, kind)>> IN
    IF kind \in disk THEN Raise(500, OSError, log) ELSE Return(kind, log)

----------------------------------------------------------------------------
(* class InstanceData *)

RECURSIVE get_name_from_tags(_)
get_name_from_tags(tags) ==
    IF tags = <<>> THEN NA
    ELSE IF Head(tags).Key = "Name" THEN Head(tags).Value
    ELSE get_name_from_tags(Tail(tags))

InstanceData(instance_data) ==
    IF "CpuOptions" \notin DOMAIN instance_data
    THEN Raise(500, KeyError, <<>>)
    ELSE Return([instance_id |-> instance_data.InstanceId,
                 instance_type |-> instance_data.InstanceType,
                 state |-> instance_data.State.Name,
                 cpu_cores |-> Get(instance_data.CpuOptions, "CoreCount", 1),
                 threads_per_core |-> Get(instance_data.CpuOptions, "ThreadsPerCore", 1),
                 total_vcpus |-> Get(instance_data.CpuOptions, "CoreCount", 1)
                                 * Get(instance_data.CpuOptions, "ThreadsPerCore", 1),
                 block_devices |-> Get(instance_data, "BlockDeviceMappings", <<>>),
                 tags |-> Get(instance_data, "Tags", <<>>),
                 name |-> get_name_from_tags(Get(instance_data, "Tags", <<>>))],
                <<>>)

----------------------------------------------------------------------------
(* class HardwareService *)

\* x in list
In(x, list) == \E i \in DOMAIN list : list[i] = x

\* The storage loop with the total assigned instead of accumulated.
RECURSIVE storage_devices_last_size(_, _)
storage_devices_last_size(block_devices, acc) ==
    IF block_devices = <<>> THEN Return([Devices |-> acc.Devices,
                                         TotalSizeGB |-> acc.TotalSizeGB], acc.calls)
    ELSE LET device == Head(block_devices) IN
         IF "Ebs" \notin DOMAIN device THEN storage_devices_last_size(Tail(block_devices), acc)
         ELSE LET volume_id == device.Ebs.VolumeId
                  volume == describe_volumes(volume_id) IN
              IF volume.raised
              THEN Raise(500, volume.error, acc.calls \o volume.calls)
              ELSE IF volume.value.Volumes # <<>>
              THEN storage_devices_last_size(Tail(block_devices),
                       [Devices |-> Append(acc.Devices,
                                       [DeviceName |-> device.DeviceName,
                                        VolumeId |-> volume_id,
                                        SizeGB |-> volume.value.Volumes[1].Size]),
                        TotalSizeGB |-> volume.value.Volumes[1].Size,
                        calls |-> acc.calls \o volume.calls])
              ELSE storage_devices_last_size(Tail(block_devices),
                       [acc EXCEPT !.calls = acc.calls \o volume.calls])

\* The storage loop of get_hardware_info: the lookup is not guarded, so one
\* that raises ends the loop and the request.
RECURSIVE storage_devices(_, _)
storage_devices(block_devices, acc) ==
    IF block_devices = <<>> THEN Return([Devices |-> acc.Devices,
                                         TotalSizeGB |-> acc.TotalSizeGB], acc.calls)
    ELSE LET device == Head(block_devices) IN
         IF "Ebs" \notin DOMAIN device THEN storage_devices(Tail(block_devices), acc)
         ELSE LET volume_id == device.Ebs.VolumeId
                  volume == describe_volumes(volume_id) IN
              IF volume.raised
              THEN Raise(500, volume.error, acc.calls \o volume.calls)
              ELSE IF volume.value.Volumes # <<>>
              THEN storage_devices(Tail(block_devices),
                       [Devices |-> Append(acc.Devices,
                                       [DeviceName |-> device.DeviceName,
                                        VolumeId |-> volume_id,
                                        SizeGB |-> volume.value.Volumes[1].Size]),
                        TotalSizeGB |-> acc.TotalSizeGB + volume.value.Volumes[1].Size,
                        calls |-> acc.calls \o volume.calls])
              ELSE storage_devices(Tail(block_devices),
                       [acc EXCEPT !.calls = acc.calls \o volume.calls])

\* The override without the sentinel test on the serial.
resolve_host_and_serial_any_serial(instance_id, name, managed_instances) ==
    IF In(instance_id, managed_instances)
    THEN Let(get_instance_hostname(instance_id), LAMBDA ssm_hostname :
         Let(get_instance_serial(instance_id), LAMBDA ssm_serial :
         Return([hostname |-> IF ssm_hostname.value # NA THEN ssm_hostname.value ELSE name,
                 serial_number |-> ssm_serial.value],
                ssm_hostname.calls \o ssm_serial.calls)))
    ELSE Return([hostname |-> name, serial_number |-> FallbackSerial(instance_id)], <<>>)

\* Host name and serial of one instance: the defaults, overridden by the
\* SSM answers when the instance is managed (the same lines in both the
\* report and the export).
resolve_host_and_serial(instance_id, name, managed_instances) ==
    IF In(instance_id, managed_instances)
    THEN Let(get_instance_hostname(instance_id), LAMBDA ssm_hostname :
         Let(get_instance_serial(instance_id), LAMBDA ssm_serial :
         Return([hostname |-> IF ssm_hostname.value # NA THEN ssm_hostname.value ELSE name,
                 serial_number |-> IF ssm_serial.value # NA THEN ssm_serial.value
                                   ELSE FallbackSerial(instance_id)],
                ssm_hostname.calls \o ssm_serial.calls)))
    ELSE Return([hostname |-> name, serial_number |-> FallbackSerial(instance_id)], <<>>)

get_hardware_info(instance_id) ==
    LET details == get_instance_details(instance_id) IN
    IF details.raised THEN details
    ELSE LET instance == InstanceData(details.value) IN
    IF instance.raised THEN Raise(500, instance.error, details.calls)
    ELSE Let(storage_devices(instance.value.block_devices,
                             [Devices |-> <<>>, TotalSizeGB |-> 0, calls |-> <<>>]),
             LAMBDA storage :
    IF storage.raised THEN Raise(500, storage.error, details.calls \o storage.calls)
    ELSE LET managed_instances == get_managed_instances IN
         Let(resolve_host_and_serial(instance_id, instance.value.name,
                                     managed_instances.value), LAMBDA probe :
         Return([InstanceId |-> instance_id,
                 HostName |-> probe.value.hostname,
                 HostType |-> instance.value.instance_type,
                 SerialNumber |-> probe.value.serial_number,
                 CPU |-> [Cores |-> instance.value.cpu_cores,
                          ThreadsPerCore |-> instance.value.threads_per_core,
                          TotalvCPUs |-> instance.value.total_vcpus],
                 Storage |-> storage.value],
                details.calls \o storage.calls \o managed_instances.calls \o probe.calls)))

\* for device in instance.block_devices: if "Ebs" in device: volume_ids.append(...)
RECURSIVE ebs_volume_ids(_)
ebs_volume_ids(block_devices) ==
    IF block_devices = <<>> THEN <<>>
    ELSE IF "Ebs" \in DOMAIN Head(block_devices)
    THEN <<Head(block_devices).Ebs.VolumeId>> \o ebs_volume_ids(Tail(block_devices))
    ELSE ebs_volume_ids(Tail(block_devices))

\* The size loop of export_hardware_data: each lookup has its own try/except.
RECURSIVE total_volume_size(_, _)
total_volume_size(volume_ids, acc) ==
    IF volume_ids = <<>> THEN Return(acc.total_size, acc.calls)
    ELSE LET volume == describe_volumes(Head(volume_ids)) IN
         IF ~volume.raised /\ volume.value.Volumes # <<>>
         THEN total_volume_size(Tail(volume_ids),
                  [total_size |-> acc.total_size + volume.value.Volumes[1].Size,
                   calls |-> acc.calls \o volume.calls])
         ELSE total_volume_size(Tail(volume_ids),
                  [acc EXCEPT !.calls = acc.calls \o volume.calls])

\* The body of the export loop for one listed instance: a row, or an exception.
hardware_row(instance_id, managed_instances) ==
    LET details == get_instance_details(instance_id) IN
    IF details.raised THEN details
    ELSE LET instance == InstanceData(details.value) IN
    IF instance.raised THEN Raise(500, instance.error, details.calls)
    ELSE Let(total_volume_size(ebs_volume_ids(instance.value.block_devices),
                               [total_size |-> 0, calls |-> <<>>]), LAMBDA size :
         Let(resolve_host_and_serial(instance_id, instance.value.name, managed_instances),
             LAMBDA probe :
         Return([InstanceId |-> instance_id,
                 Name |-> instance.value.name,
                 HostName |-> probe.value.hostname,
                 HostType |-> instance.value.instance_type,
                 SerialNumber |-> probe.value.serial_number,
                 State |-> instance.value.state,
                 TotalVCPUs |-> instance.value.total_vcpus,
                 HardDiskSize |-> IF size.value > 0
                                  THEN [text |-> "GB", number |-> size.value]
                                  ELSE [text |-> "N/A", number |-> 0]],
                details.calls \o size.calls \o probe.calls)))

\* The export loop without its try/except: the first failure ends the loop.
RECURSIVE hardware_rows_abort(_, _, _)
hardware_rows_abort(listed, managed_instances, acc) ==
    IF listed = <<>> THEN acc
    ELSE Let(hardware_row(Head(listed).InstanceId, managed_instances), LAMBDA row :
         IF row.raised THEN [acc EXCEPT !.calls = acc.calls \o row.calls]
         ELSE hardware_rows_abort(Tail(listed), managed_instances,
                  [rows |-> Append(acc.rows, row.value),
                   calls |-> acc.calls \o row.calls]))

\* for instance_info in instances: try: ... hardware_data.append(...) except: log
RECURSIVE hardware_rows(_, _, _)
hardware_rows(listed, managed_instances, acc) ==
    IF listed = <<>> THEN acc
    ELSE Let(hardware_row(Head(listed).InstanceId, managed_instances), LAMBDA row :
         hardware_rows(Tail(listed), managed_instances,
             [rows |-> IF row.raised THEN acc.rows ELSE Append(acc.rows, row.value),
              calls |-> acc.calls \o row.calls]))

export_hardware_data ==
    LET listed == get_instances
        managed_instances == get_managed_instances
        written == to_csv("hardware") IN
    IF listed.raised THEN listed
    ELSE Let(hardware_rows(listed.value, managed_instances.value,
                           [rows |-> <<>>, calls |-> <<>>]), LAMBDA hardware_data :
         LET log == listed.calls \o managed_instances.calls \o hardware_data.calls
                    \o written.calls IN
         IF written.raised THEN Raise(500, written.error, log)
         ELSE Return([records |-> Len(hardware_data.rows),
                      file_path |-> "aws_hardware.csv",
                      rows |-> hardware_data.rows], log))

----------------------------------------------------------------------------
(* class SoftwareService *)

\* formatted_software / the application columns of an export row
format_app(app) ==
    [Name |-> Get(app, "Name", "Unknown"),
     Version |-> Get(app, "Version", "Unknown"),
     Publisher |-> Get(app, "Publisher", "Unknown"),
     InstalledTime |-> Get(app, "InstalledTime", "Unknown")]

\* The answer for an instance the managed list does not hold.
not_managed(instance_id) ==
    Return([instance_id |-> instance_id, status |-> "Not managed by SSM", software |-> <<>>],
           <<>>)

\* Asking the inventory before looking at the managed list.
get_software_info_unguarded(instance_id) ==
    LET managed_instances == get_managed_instances
        software_list == get_software_inventory(instance_id) IN
    IF ~In(instance_id, managed_instances.value)
    THEN Return(not_managed(instance_id).value, managed_instances.calls \o software_list.calls)
    ELSE Return([instance_id |-> instance_id, status |-> "Success",
                 software_count |-> Len(software_list.value),
                 software |-> [i \in DOMAIN software_list.value |->
                                 format_app(software_list.value[i])]],
                managed_instances.calls \o software_list.calls)

get_software_info(instance_id) ==
    LET managed_instances == get_managed_instances IN
    IF ~In(instance_id, managed_instances.value)
    THEN Return(not_managed(instance_id).value, managed_instances.calls)
    ELSE LET software_list == get_software_inventory(instance_id)
             log == managed_instances.calls \o software_list.calls IN
         IF ~software_list.raised
         THEN Return([instance_id |-> instance_id, status |-> "Success",
                      software_count |-> Len(software_list.value),
                      software |-> [i \in DOMAIN software_list.value |->
                                      format_app(software_list.value[i])]], log)
         ELSE IF In("InvalidInstanceId", software_list.error)
         THEN Return([instance_id |-> instance_id,
                      status |-> "Instance not found or not configured with SSM",
                      software |-> <<>>], log)
         ELSE Return([instance_id |-> instance_id, status |-> "Error",
                      error |-> software_list.error, software |-> <<>>], log)

UnknownInfo == [Name |-> Unknown, HostName |-> Unknown, InstanceType |-> "Unknown",
                State |-> "Unknown"]

\* One entry of instance_data_map: the summary, or the defaults when the
\* detail lookup or the record construction raises.
instance_summary(instance_id) ==
    LET details == get_instance_details(instance_id) IN
    IF details.raised THEN Return(UnknownInfo, details.calls)
    ELSE LET instance == InstanceData(details.value) IN
    IF instance.raised THEN Return(UnknownInfo, details.calls)
    ELSE Let(get_instance_hostname(instance_id), LAMBDA ssm_hostname :
         Return([Name |-> instance.value.name,
                 HostName |-> IF ssm_hostname.value # NA THEN ssm_hostname.value
                              ELSE instance.value.name,
                 InstanceType |-> instance.value.instance_type,
                 State |-> instance.value.state],
                details.calls \o ssm_hostname.calls))

\* The map without the except branch's assignment: a failed lookup leaves no entry.
RECURSIVE instance_data_map_skip(_, _)
instance_data_map_skip(listed, acc) ==
    IF listed = <<>> THEN acc
    ELSE Let(instance_summary(Head(listed).InstanceId), LAMBDA summary :
         instance_data_map_skip(Tail(listed),
             [map |-> IF summary.value = UnknownInfo THEN acc.map
                      ELSE (Head(listed).InstanceId :> summary.value) @@ acc.map,
              calls |-> acc.calls \o summary.calls]))

RECURSIVE instance_data_map(_, _)
instance_data_map(listed, acc) ==
    IF listed = <<>> THEN acc
    ELSE Let(instance_summary(Head(listed).InstanceId), LAMBDA summary :
         instance_data_map(Tail(listed),
             [map |-> (Head(listed).InstanceId :> summary.value) @@ acc.map,
              calls |-> acc.calls \o summary.calls]))

\* A single "No applications found" row whatever the inventory holds.
software_rows_of_placeholder(instance_id, instance_info, apps) ==
    << [InstanceId |-> instance_id,
        InstanceName |-> instance_info.Name,
        HostName |-> instance_info.HostName,
        HostType |-> instance_info.InstanceType,
        ApplicationName |-> "No applications found",
        Version |-> "N/A", Publisher |-> "N/A", InstalledTime |-> "N/A"] >>

\* The rows one managed instance contributes.
software_rows_of(instance_id, instance_info, apps) ==
    IF apps # <<>>
    THEN [i \in DOMAIN apps |->
            [InstanceId |-> instance_id,
             InstanceName |-> instance_info.Name,
             HostName |-> instance_info.HostName,
             HostType |-> instance_info.InstanceType,
             ApplicationName |-> format_app(apps[i]).Name,
             Version |-> format_app(apps[i]).Version,
             Publisher |-> format_app(apps[i]).Publisher,
             InstalledTime |-> format_app(apps[i]).InstalledTime]]
    ELSE << [InstanceId |-> instance_id,
             InstanceName |-> instance_info.Name,
             HostName |-> instance_info.HostName,
             HostType |-> instance_info.InstanceType,
             ApplicationName |-> "No applications found",
             Version |-> "N/A", Publisher |-> "N/A", InstalledTime |-> "N/A"] >>

\* for instance_id in managed_instances: ...
RECURSIVE software_rows(_, _, _)
software_rows(managed_instances, map, acc) ==
    IF managed_instances = <<>> THEN acc
    ELSE LET instance_id == Head(managed_instances)
             instance_info == Get(map, instance_id, UnknownInfo)
             apps == get_software_inventory(instance_id) IN
         software_rows(Tail(managed_instances), map,
             [rows |-> acc.rows \o software_rows_of(instance_id, instance_info, apps.value),
              calls |-> acc.calls \o apps.calls])

export_software_data ==
    LET listed == get_instances IN
    IF listed.raised THEN listed
    ELSE Let(instance_data_map(listed.value, [map |-> <<>>, calls |-> <<>>]),
             LAMBDA data_map :
         LET managed_instances == get_managed_instances
             written == to_csv("software") IN
         Let(software_rows(managed_instances.value, data_map.map,
                           [rows |-> <<>>, calls |-> <<>>]), LAMBDA software_data :
         LET log == listed.calls \o data_map.calls \o managed_instances.calls
                    \o software_data.calls \o written.calls IN
         IF written.raised THEN Raise(500, written.error, log)
         ELSE Return([records |-> Len(software_data.rows),
                      ssm_managed_instances |-> Len(managed_instances.value),
                      file_path |-> "aws_software.csv",
                      rows |-> software_data.rows,
                      instance_data_map |-> data_map.map], log)))

----------------------------------------------------------------------------
(* class AssetInventoryService *)

\* The software export first, the hardware export second.
export_all_data_reversed ==
    Let(export_software_data, LAMBDA software_result :
    IF software_result.raised
    THEN Raise(500, software_result.error, software_result.calls)
    ELSE Let(export_hardware_data, LAMBDA hardware_result :
         LET log == software_result.calls \o hardware_result.calls IN
         IF hardware_result.raised THEN Raise(500, hardware_result.error, log)
         ELSE Return([hardware_file |-> hardware_result.value.file_path,
                      hardware_records |-> hardware_result.value.records,
                      software_file |-> software_result.value.file_path,
                      software_records |-> software_result.value.records], log)))

\* Both counts taken from the hardware result.
export_all_data_one_count ==
    Let(export_hardware_data, LAMBDA hardware_result :
    IF hardware_result.raised
    THEN Raise(500, hardware_result.error, hardware_result.calls)
    ELSE Let(export_software_data, LAMBDA software_result :
         LET log == hardware_result.calls \o software_result.calls IN
         IF software_result.raised THEN Raise(500, software_result.error, log)
         ELSE Return([hardware_file |-> hardware_result.value.file_path,
                      hardware_records |-> hardware_result.value.records,
                      software_file |-> software_result.value.file_path,
                      software_records |-> hardware_result.value.records], log)))

export_all_data ==
    Let(export_hardware_data, LAMBDA hardware_result :
    IF hardware_result.raised
    THEN Raise(500, hardware_result.error, hardware_result.calls)
    ELSE Let(export_software_data, LAMBDA software_result :
         LET log == hardware_result.calls \o software_result.calls IN
         IF software_result.raised THEN Raise(500, software_result.error, log)
         ELSE Return([hardware_file |-> hardware_result.value.file_path,
                      hardware_records |-> hardware_result.value.records,
                      software_file |-> software_result.value.file_path,
                      software_records |-> software_result.value.records], log)))

\* AssetInventoryService.get_instances
list_instances ==
    LET listed == get_instances IN
    IF listed.raised THEN listed
    ELSE Return([instances |-> listed.value, count |-> Len(listed.value)], listed.calls)

----------------------------------------------------------------------------
(* The routes: one request served per step. *)

Respond(op, arg, r) ==
    /\ result' = [op |-> op, arg |-> arg, status_code |-> r.status_code,
                  error |-> r.error, body |-> r.value]
    /\ calls' = r.calls
    /\ UNCHANGED provider

GetInstances == \E r \in {list_instances} : Respond("get_instances", <<>>, r)

GetHardware == \E instance_id \in InstanceIds : \E r \in {get_hardware_info(instance_id)} :
    Respond("get_hardware_info", instance_id, r)

GetSoftware == \E instance_id \in InstanceIds : \E r \in {get_software_info(instance_id)} :
    Respond("get_software_info", instance_id, r)

ExportHardware == \E r \in {export_hardware_data} : Respond("export_hardware_data", <<>>, r)

ExportSoftware == \E r \in {export_software_data} : Respond("export_software_data", <<>>, r)

ExportAll == \E r \in {export_all_data} : Respond("export_all_data", <<>>, r)

----------------------------------------------------------------------------
(* The provider: one facet changes between two requests; the response of   *)
(* the last request is then history.                                       *)

Forget == result' = NoResult /\ calls' = <<>>

ChangeListing == \E l \in Listings :
    /\ l # listing
    /\ listing' = l
    /\ Forget
    /\ UNCHANGED <<managed, instances, volumes, commands, inventory, disk>>

ChangeManaged == \E m \in ManagedAnswers :
    /\ m # managed
    /\ managed' = m
    /\ Forget
    /\ UNCHANGED <<listing, instances, volumes, commands, inventory, disk>>

ChangeDetail == \E id \in InstanceIds, d \in Details :
    /\ d # instances[id].detail
    /\ instances' = [instances EXCEPT ![id].detail = d]
    /\ Forget
    /\ UNCHANGED <<listing, managed, volumes, commands, inventory, disk>>

ChangeTags == \E id \in InstanceIds, t \in TagSets :
    /\ t # instances[id].tags
    /\ instances' = [instances EXCEPT ![id].tags = t]
    /\ Forget
    /\ UNCHANGED <<listing, managed, volumes, commands, inventory, disk>>

ChangeVolume == \E v \in VolumeIds, a \in VolumeAnswers :
    /\ a # volumes[v]
    /\ volumes' = [volumes EXCEPT ![v] = a]
    /\ Forget
    /\ UNCHANGED <<listing, managed, instances, commands, inventory, disk>>

ChangeCommand == \E kind \in Kinds, doc \in Documents : \E o \in CommandOutcomes(kind) :
    /\ o # commands[<<kind, doc>>]
    /\ commands' = [commands EXCEPT ![<<kind, doc>>] = o]
    /\ Forget
    /\ UNCHANGED <<listing, managed, instances, volumes, inventory, disk>>

\* The outcome of one of the two hostname commands changes.
ChangeHostnameCommand == \E doc \in Documents : \E o \in CommandOutcomes("hostname") :
    /\ o # commands[<<"hostname", doc>>]
    /\ commands' = [commands EXCEPT ![<<"hostname", doc>>] = o]
    /\ Forget
    /\ UNCHANGED <<listing, managed, instances, volumes, inventory, disk>>

ChangeInventory == \E id \in InstanceIds, a \in InventoryAnswers :
    /\ a # inventory[id]
    /\ inventory' = [inventory EXCEPT ![id] = a]
    /\ Forget
    /\ UNCHANGED <<listing, managed, instances, volumes, commands, disk>>

ChangeDisk == \E d \in SUBSET ExportKinds :
    /\ d # disk
    /\ disk' = d
    /\ Forget
    /\ UNCHANGED <<listing, managed, instances, volumes, commands, inventory>>

----------------------------------------------------------------------------
(* Specifications *)

\* Every route, over the listings, the managed set, the instance
\* descriptions and the disk.
Next ==
    \/ GetInstances \/ GetHardware \/ GetSoftware
    \/ ExportHardware \/ ExportSoftware \/ ExportAll
    \/ ChangeListing \/ ChangeManaged \/ ChangeDetail \/ ChangeDisk

Spec == Init /\ [][Next]_vars

\* The hardware routes, over the descriptions, the tags and the volumes.
NextHardware ==
    \/ GetHardware \/ ExportHardware
    \/ ChangeListing \/ ChangeManaged \/ ChangeDetail \/ ChangeTags \/ ChangeVolume

SpecHardware == Init /\ [][NextHardware]_vars

\* The routes that run remote commands, over every outcome of the commands.
NextProbe ==
    \/ GetHardware \/ ExportHardware \/ ExportSoftware
    \/ ChangeManaged \/ ChangeTags \/ ChangeCommand

SpecProbe == Init /\ [][NextProbe]_vars

\* The software routes, over the inventory answers.
NextSoftware ==
    \/ GetSoftware \/ ExportSoftware
    \/ ChangeListing \/ ChangeManaged \/ ChangeDetail \/ ChangeInventory

SpecSoftware == Init /\ [][NextSoftware]_vars

\* The software export, over the descriptions and the hostname commands.
NextSummary ==
    \/ ExportSoftware
    \/ ChangeListing \/ ChangeManaged \/ ChangeDetail \/ ChangeHostnameCommand

SpecSummary == Init /\ [][NextSummary]_vars

----------------------------------------------------------------------------
(* What the provider state says, stated without the connector's code. *)

\* ManagedInstanceSet of a request: the managed ids, none when the listing fails.
ManagedInstanceSet == IF managed.ok THEN {managed.ids[i] : i \in DOMAIN managed.ids} ELSE {}

\* The EBS volumes of an instance whose lookup returns a volume, in device order.
ResolvedVolumes(id) ==
    SelectSeq(BlockDeviceMappings(id),
              LAMBDA d : "Ebs" \in DOMAIN d /\ volumes[d.Ebs.VolumeId] = "ok")

FailedVolume(id) ==
    \E i \in DOMAIN BlockDeviceMappings(id) :
        /\ "Ebs" \in DOMAIN BlockDeviceMappings(id)[i]
        /\ volumes[BlockDeviceMappings(id)[i].Ebs.VolumeId] = "error"

RECURSIVE SumSizes(_)
SumSizes(devices) ==
    IF devices = <<>> THEN 0
    ELSE VolumeSize[Head(devices).Ebs.VolumeId] + SumSizes(Tail(devices))

\* One command round trip raises / yields a successful, non-blank output.
Raises(o) == o.send = "error" \/ o.poll = "error"
Succeeds(o) == ~Raises(o) /\ o.Status = "Success"
Blank(text) == \A i \in DOMAIN text : text[i] \in Whitespace
FailsOrEmpty(o) == ~Succeeds(o) \/ Blank(o.StandardOutputContent)

\* No successful command gave a non-blank serial for this instance.
NoSerialOutput(id) ==
    \/ id \notin ManagedInstanceSet
    \/ Raises(commands[<<"serial", PowerShell>>])
    \/ /\ FailsOrEmpty(commands[<<"serial", PowerShell>>])
       /\ FailsOrEmpty(commands[<<"serial", Shell>>])

\* "i-" followed by exactly the last 8 characters of the id.
IsFallbackOf(serial, id) ==
    /\ Len(serial) = 10
    /\ serial[1] = "i" /\ serial[2] = "-"
    /\ \A k \in 1..8 : serial[2 + k] = id[Len(id) - 8 + k]

NameTag(id) ==
    IF \E i \in DOMAIN instances[id].tags : instances[id].tags[i].Key = "Name"
    THEN NameWeb ELSE NA

\* The rows of a sequence that belong to one instance.
RowsOf(rows, id) == SelectSeq(rows, LAMBDA r : r.InstanceId = id)

Applications(id) == IF inventory[id].ok THEN inventory[id].entries ELSE <<>>

Returned(op) == result.op = op /\ result.status_code = 200

Position(api, arg) ==
    IF \E i \in DOMAIN calls : calls[i].api = api /\ calls[i].arg = arg
    THEN CHOOSE i \in DOMAIN calls : calls[i].api = api /\ calls[i].arg = arg
    ELSE 0

----------------------------------------------------------------------------
(* Claims *)

\* C1: in get_hardware_info for an existing instance, a volume lookup that
\* fails does not fail the report: the report is returned, the failed volume
\* is left out of the devices and of the total, every other volume counts.
C1_VolumeFailureKeepsReport ==
    (/\ result.op = "get_hardware_info"
     /\ instances[result.arg].detail = "ok"
     /\ FailedVolume(result.arg))
    => /\ result.status_code = 200
       /\ result.body.Storage.TotalSizeGB = SumSizes(ResolvedVolumes(result.arg))
       /\ Len(result.body.Storage.Devices) = Len(ResolvedVolumes(result.arg))

\* C2: in get_software_info for a managed instance whose inventory request
\* fails, the status is the not-found status for an invalid instance id and
\* "Error" with the detail otherwise; the software list is empty and the
\* status is never "Success".
C2_InventoryFailureStatus ==
    (/\ result.op = "get_software_info"
     /\ result.arg \in ManagedInstanceSet
     /\ ~inventory[result.arg].ok)
    => /\ result.body.software = <<>>
       /\ result.body.status # "Success"
       /\ IF In("InvalidInstanceId", inventory[result.arg].error)
          THEN result.body.status = "Instance not found or not configured with SSM"
          ELSE /\ result.body.status = "Error"
               /\ result.body.error = inventory[result.arg].error

\* C3: in every operation a remote command or an inventory request is issued
\* for an instance only if the instance is in the ManagedInstanceSet of the
\* request.
C3_OnlyManagedProbed ==
    \A i \in DOMAIN calls :
        calls[i].api \in {"send_command", "get_command_invocation", "list_inventory_entries"}
        => calls[i].target \in ManagedInstanceSet

\* C4: export_software_data writes, for every managed instance, one row per
\* application, or exactly one "No applications found" row with N/A fields
\* when it has none; an instance outside the ManagedInstanceSet gets no row;
\* the returned record count is the number of rows.
C4_SoftwareExportRows ==
    Returned("export_software_data") =>
        /\ result.body.records = Len(result.body.rows)
        /\ \A id \in InstanceIds :
            LET mine == RowsOf(result.body.rows, id) IN
            /\ id \notin ManagedInstanceSet => mine = <<>>
            /\ id \in ManagedInstanceSet => Len(mine) >= 1
            /\ (id \in ManagedInstanceSet /\ Applications(id) # <<>>)
                   => /\ Len(mine) = Len(Applications(id))
                      /\ \A k \in DOMAIN mine :
                            mine[k].ApplicationName # "No applications found"
            /\ (id \in ManagedInstanceSet /\ Applications(id) = <<>>)
                   => /\ Len(mine) = 1
                      /\ mine[1].ApplicationName = "No applications found"
                      /\ mine[1].Version = "N/A"
                      /\ mine[1].Publisher = "N/A"
                      /\ mine[1].InstalledTime = "N/A"

C4_Witness ==
    /\ Returned("export_software_data")
    /\ result.body.records = 1 + MaxApps
    /\ \E id \in ManagedInstanceSet :
          /\ Applications(id) = <<>>
          /\ Len(RowsOf(result.body.rows, id)) = 1
    /\ \E id \in ManagedInstanceSet : Len(RowsOf(result.body.rows, id)) = MaxApps

\* C5: for a managed instance, when both hostname attempts fail or return
\* empty output, the HostName of the hardware report stays the default: the
\* Name tag, or N/A without one.
C5_HostNameKeepsDefault ==
    (/\ Returned("get_hardware_info")
     /\ result.arg \in ManagedInstanceSet
     /\ FailsOrEmpty(commands[<<"hostname", PowerShell>>])
     /\ FailsOrEmpty(commands[<<"hostname", Shell>>]))
    => result.body.HostName = NameTag(result.arg)

\* C6: whenever no successful command gave a non-empty serial, the
\* SerialNumber of the hardware report and of the hardware export row is
\* "i-" followed by exactly the last 8 characters of the instance id.
C6_SerialFallback ==
    /\ (Returned("get_hardware_info") /\ NoSerialOutput(result.arg))
           => IsFallbackOf(result.body.SerialNumber, result.arg)
    /\ Returned("export_hardware_data")
           => \A k \in DOMAIN result.body.rows :
                 NoSerialOutput(result.body.rows[k].InstanceId)
                     => IsFallbackOf(result.body.rows[k].SerialNumber,
                                     result.body.rows[k].InstanceId)

C6_Witness ==
    /\ Returned("get_hardware_info")
    /\ result.arg = IdA
    /\ IdA \in ManagedInstanceSet
    /\ ~Raises(commands[<<"serial", PowerShell>>])
    /\ Succeeds(commands[<<"serial", Shell>>])
    /\ NoSerialOutput(IdA)
    /\ result.body.SerialNumber = <<"i", "-", "9", "a", "b", "c", "d", "e", "f", "0">>

\* C7: export_all_data finishes the hardware export before it starts the
\* software export, returns the combined summary only when both stages
\* succeed, and ends in one HTTP 500 with no combined result when either
\* stage fails.
C7_ExportAllSequential ==
    result.op = "export_all_data" =>
        LET hw == Position("to_csv", "hardware")
            sw == Position("to_csv", "software") IN
        /\ \A i \in DOMAIN calls :
              /\ calls[i].api \in {"list_inventory_entries"} \/ i = sw
                    => (hw > 0 /\ hw < i /\ "hardware" \notin disk)
              /\ calls[i].api = "describe_volumes" => (hw = 0 \/ i < hw)
        /\ result.status_code \in {200, 500}
        /\ result.status_code = 200
              <=> (hw > 0 /\ sw > 0 /\ disk = {})
        /\ result.status_code = 200
              => /\ result.body.hardware_file = "aws_hardware.csv"
                 /\ result.body.software_file = "aws_software.csv"
                 /\ result.body.hardware_records \in Nat
                 /\ result.body.software_records \in Nat
        /\ (~listing.ok \/ disk # {})
              => (result.status_code = 500 /\ result.body = <<>>)

C7_Witness ==
    /\ result.op = "export_all_data"
    /\ result.status_code = 500
    /\ Position("to_csv", "hardware") > 0
    /\ Position("to_csv", "software") > Position("to_csv", "hardware")
    /\ disk = {"software"}
    /\ result.body = <<>>

\* C8: under one provider state, the hardware_records and software_records
\* of export_all_data equal the record counts of export_hardware_data and
\* export_software_data invoked on their own.
C8_ExportAllCounts ==
    [][ /\ (Returned("export_hardware_data") /\ result'.op = "export_all_data"
             /\ result'.status_code = 200)
            => result'.body.hardware_records = result.body.records
        /\ (Returned("export_software_data") /\ result'.op = "export_all_data"
             /\ result'.status_code = 200)
            => result'.body.software_records = result.body.records
        /\ (Returned("export_all_data") /\ result'.op = "export_hardware_data"
             /\ result'.status_code = 200)
            => result'.body.records = result.body.hardware_records
        /\ (Returned("export_all_data") /\ result'.op = "export_software_data"
             /\ result'.status_code = 200)
            => result'.body.records = result.body.software_records ]_vars

C8_Witness ==
    /\ Returned("export_all_data")
    /\ result.body.hardware_records > 0
    /\ result.body.software_records > 0
    /\ result.body.hardware_records # result.body.software_records

C10_NotManagedReturnsAtOnce ==
    (result.op = "get_software_info" /\ result.arg \notin ManagedInstanceSet)
    => /\ result.status_code = 200
       /\ result.body.status = "Not managed by SSM"
       /\ result.body.software = <<>>
       /\ \A i \in DOMAIN calls : calls[i].api # "list_inventory_entries"
       /\ Len(calls) = 1

C10_Witness ==
    /\ result.op = "get_software_info"
    /\ result.arg \notin ManagedInstanceSet
    /\ inventory[result.arg].ok
    /\ inventory[result.arg].entries # <<>>
    /\ result.body.status = "Not managed by SSM"

\* C11: get_hardware_info fails with HTTP 404 when the provider reports no
\* instance for the id; no report is returned and nothing else is done: no
\* volume lookup, no managed-instance listing, no remote command.
C11_NotFoundStopsReport ==
    (result.op = "get_hardware_info" /\ instances[result.arg].detail = "notfound")
    => /\ result.status_code = 404
       /\ result.body = <<>>
       /\ Len(calls) = 1
       /\ calls[1].api = "describe_instances"
       /\ \A i \in DOMAIN calls :
             calls[i].api \notin {"describe_volumes", "describe_instance_information",
                                  "send_command", "get_command_invocation"}

C11_Witness ==
    /\ result.op = "get_hardware_info"
    /\ instances[result.arg].detail = "notfound"
    /\ result.arg \in ManagedInstanceSet
    /\ result.status_code = 404

\* The remote-command calls of the last request, in order.
CommandCalls ==
    SelectSeq(calls, LAMBDA c : c.api \in {"send_command", "get_command_invocation"})

IsPollOf(poll, send) ==
    /\ poll.api = "get_command_invocation"
    /\ send.api = "send_command"
    /\ poll.target = send.target /\ poll.arg = send.arg /\ poll.command = send.command

Sends(log) == {i \in DOMAIN log : log[i].api = "send_command"}

\* C12: each live resolution is a fixed two-attempt sequence: the Linux
\* command is sent only after the Windows command was sent and polled and
\* was not a success (for the serial, also when its trimmed output was
\* empty); every command sent is polled exactly once; a resolution sends at
\* most 2 commands, a report for a managed instance at most 4, a report for
\* an unmanaged instance none.
C12_TwoAttemptSequence ==
    Returned("get_hardware_info") =>
        LET log == CommandCalls IN
        /\ result.arg \notin ManagedInstanceSet => log = <<>>
        /\ Cardinality(Sends(log)) <= 4
        /\ \A kind \in Kinds :
              Cardinality({i \in Sends(log) : log[i].command = kind}) <= 2
        /\ \A i \in DOMAIN log :
              /\ log[i].target = result.arg
              /\ log[i].api = "get_command_invocation"
                    => (i > 1 /\ IsPollOf(log[i], log[i - 1]))
              /\ (log[i].api = "send_command"
                     /\ commands[<<log[i].command, log[i].arg>>].send = "ok")
                    => (i < Len(log) /\ IsPollOf(log[i + 1], log[i]))
              /\ (log[i].api = "send_command" /\ log[i].arg = PowerShell)
                    => \A j \in 1..(i - 1) : log[j].command # log[i].command
              /\ (log[i].api = "send_command" /\ log[i].arg = Shell)
                    => LET first == commands[<<log[i].command, PowerShell>>] IN
                       /\ i > 2
                       /\ log[i - 2].api = "send_command"
                       /\ log[i - 2].arg = PowerShell
                       /\ log[i - 2].command = log[i].command
                       /\ IsPollOf(log[i - 1], log[i - 2])
                       /\ ~Raises(first)
                       /\ \/ first.Status # "Success"
                          \/ log[i].command = "serial" /\ Blank(first.StandardOutputContent)
                       /\ \A j \in (i + 1)..Len(log) :
                             log[j].api = "send_command" => log[j].command # log[i].command

C12_Witness ==
    /\ Returned("get_hardware_info")
    /\ result.arg \in ManagedInstanceSet
    /\ Cardinality(Sends(CommandCalls)) = 4
    /\ Len(CommandCalls) = 8
    /\ Succeeds(commands[<<"serial", PowerShell>>])
    /\ Blank(commands[<<"serial", PowerShell>>].StandardOutputContent)

RECURSIVE SumSizeGB(_)
SumSizeGB(devices) ==
    IF devices = <<>> THEN 0 ELSE Head(devices).SizeGB + SumSizeGB(Tail(devices))

\* C13: in every hardware report Storage.TotalSizeGB is the sum of SizeGB
\* over Storage.Devices (0 for none), and Storage.Devices holds, in block
\* device order, exactly the EBS devices whose lookup returned a volume.
C13_StorageSummary ==
    Returned("get_hardware_info") =>
        LET resolved == ResolvedVolumes(result.arg) IN
        /\ result.body.Storage.TotalSizeGB = SumSizeGB(result.body.Storage.Devices)
        /\ result.body.Storage.Devices
             = [i \in DOMAIN resolved |->
                  [DeviceName |-> resolved[i].DeviceName,
                   VolumeId |-> resolved[i].Ebs.VolumeId,
                   SizeGB |-> VolumeSize[resolved[i].Ebs.VolumeId]]]
        /\ result.body.Storage.Devices = <<>> => result.body.Storage.TotalSizeGB = 0

C13_Witness ==
    /\ Returned("get_hardware_info")
    /\ result.arg = IdA
    /\ Len(result.body.Storage.Devices) = 2
    /\ result.body.Storage.Devices[1].VolumeId = "vol-1"
    /\ result.body.Storage.TotalSizeGB = 120

\* No hostname attempt that was made ended in a success.
HostnameProbeFails ==
    /\ ~Succeeds(commands[<<"hostname", PowerShell>>])
    /\ \/ Raises(commands[<<"hostname", PowerShell>>])
       \/ ~Succeeds(commands[<<"hostname", Shell>>])

ListedSet == {listing.ids[i] : i \in DOMAIN listing.ids}

\* C14: in export_software_data the id-to-summary lookup has an entry for
\* every listed instance; when the detail lookup of an instance fails its
\* four fields are "Unknown", the export is not aborted and the rows of the
\* instances are what the managed list and the inventory give; a failed
\* hostname probe leaves HostName equal to the instance name.
C14_SummaryLookup ==
    (result.op = "export_software_data" /\ listing.ok /\ disk = {})
    => /\ result.status_code = 200
       /\ DOMAIN result.body.instance_data_map = ListedSet
       /\ \A id \in ListedSet :
             LET info == result.body.instance_data_map[id] IN
             /\ instances[id].detail # "ok"
                   => /\ info.Name = Unknown /\ info.HostName = Unknown
                      /\ info.InstanceType = "Unknown" /\ info.State = "Unknown"
             /\ instances[id].detail = "ok"
                   => /\ info.Name = NameTag(id)
                      /\ info.InstanceType = InstanceType(id)
                      /\ HostnameProbeFails => info.HostName = info.Name
       /\ \A id \in InstanceIds :
             LET mine == RowsOf(result.body.rows, id) IN
             /\ Len(mine) = IF id \notin ManagedInstanceSet THEN 0
                            ELSE IF Applications(id) = <<>> THEN 1
                            ELSE Len(Applications(id))
             /\ \A k \in DOMAIN mine :
                   mine[k].InstanceName
                     = Get(result.body.instance_data_map, id, UnknownInfo).Name

C14_Witness ==
    /\ Returned("export_software_data")
    /\ listing.ids = <<IdB, IdA>>
    /\ instances[IdB].detail = "error"
    /\ instances[IdA].detail = "ok"
    /\ HostnameProbeFails
    /\ ManagedInstanceSet = {IdA, IdB}
    /\ result.body.instance_data_map[IdB].HostName = Unknown
    /\ result.body.instance_data_map[IdA].HostName = NameWeb
    /\ result.body.records = 1 + MaxApps

\* C15: when the managed-instance listing fails the set of managed
\* instances is empty and no error is raised: get_software_info answers
\* "Not managed by SSM" for every instance, get_hardware_info returns the
\* instance name as host name and the fallback serial without sending any
\* command, and export_software_data succeeds with zero rows.
C15_ManagedListingFailure ==
    ~managed.ok =>
       /\ result.op = "get_software_info"
             => /\ result.status_code = 200
                /\ result.body.status = "Not managed by SSM"
                /\ result.body.software = <<>>
                /\ \A i \in DOMAIN calls : calls[i].api # "list_inventory_entries"
       /\ (result.op = "get_hardware_info" /\ instances[result.arg].detail = "ok"
              /\ \A i \in DOMAIN BlockDeviceMappings(result.arg) :
                    "Ebs" \in DOMAIN BlockDeviceMappings(result.arg)[i]
                       => volumes[BlockDeviceMappings(result.arg)[i].Ebs.VolumeId]
                             # "error")
             => /\ result.status_code = 200
                /\ result.body.HostName = NameTag(result.arg)
                /\ IsFallbackOf(result.body.SerialNumber, result.arg)
                /\ \A i \in DOMAIN calls :
                      calls[i].api \notin {"send_command", "get_command_invocation"}
                /\ \E i \in DOMAIN calls :
                      calls[i].api = "describe_instance_information"
       /\ (result.op = "export_software_data" /\ listing.ok /\ disk = {})
             => /\ result.status_code = 200
                /\ result.body.rows = <<>>
                /\ result.body.records = 0
                /\ \A i \in DOMAIN calls : calls[i].api # "list_inventory_entries"

C15_Witness ==
    /\ ~managed.ok
    /\ Returned("get_hardware_info")
    /\ result.arg = IdA
    /\ Succeeds(commands[<<"hostname", Shell>>])
    /\ Succeeds(commands[<<"serial", Shell>>])
    /\ result.body.HostName = NameWeb
    /\ IsFallbackOf(result.body.SerialNumber, IdA)

\* The serial is the trimmed output of a successful serial command.
IsCommandSerial(serial) ==
    \E doc \in Documents :
        /\ Succeeds(commands[<<"serial", doc>>])
        /\ serial = Strip(commands[<<"serial", doc>>].StandardOutputContent)

\* A serial command that ran first and succeeded with exactly the sentinel.
SerialIsSentinel ==
    /\ Succeeds(commands[<<"serial", PowerShell>>])
    /\ Strip(commands[<<"serial", PowerShell>>].StandardOutputContent) = NA

ValidSerial(serial, id) ==
    /\ serial # NA
    /\ serial # <<>>
    /\ IsFallbackOf(serial, id) \/ IsCommandSerial(serial)
    /\ SerialIsSentinel => IsFallbackOf(serial, id)

\* C16: in every hardware report and every hardware export row the
\* SerialNumber is never "N/A" and never empty: it is the non-empty trimmed
\* output of a successful command, different from "N/A", or "i-" followed by
\* the last 8 characters of the id; a successful command whose output is
\* exactly "N/A" gives the fallback.
C16_SerialNeverSentinel ==
    /\ Returned("get_hardware_info")
           => ValidSerial(result.body.SerialNumber, result.arg)
    /\ Returned("export_hardware_data")
           => \A k \in DOMAIN result.body.rows :
                 ValidSerial(result.body.rows[k].SerialNumber,
                             result.body.rows[k].InstanceId)

C16_Witness ==
    /\ Returned("export_hardware_data")
    /\ ManagedInstanceSet = {IdA, IdB}
    /\ SerialIsSentinel
    /\ Len(result.body.rows) = 2
    /\ result.body.rows[1].SerialNumber = <<"i", "-", "9", "a", "b", "c", "d", "e", "f", "0">>
    /\ IsFallbackOf(result.body.rows[2].SerialNumber, IdB)

====
